---- MODULE Spec2Model ----
(***************************************************************************)
(* Model of src/screp.py: one GraphQL POST, a rank index built from the    *)
(* OAppStats rows, a stable sort of the OAppSecurityConfig rows by that    *)
(* rank, a first-wins deduplication per oappId, and a print of the first   *)
(* ten deduplicated rows.                                                  *)
(*                                                                         *)
(* A JSON object is a TLA+ record; a key missing from the object is a      *)
(* field missing from the record.  The field "row" of a config row is its  *)
(* position in the returned list: it stands for the identity of the row    *)
(* object (and for any further selected columns), so that two rows with    *)
(* the same oappId can be told apart.                                      *)
(***************************************************************************)
EXTENDS Integers, Sequences, FiniteSets, TLC

VARIABLES pc, exc, posts, status, body, data, stats, configs, order_index,
          configs_sorted, configs_unique_in_stats_order, slice, i, stdout

vars == <<pc, exc, posts, status, body, data, stats, configs, order_index,
          configs_sorted, configs_unique_in_stats_order, slice, i, stdout>>

(***************************************************************************)
(* Bounds of the model.                                                    *)
(***************************************************************************)
NumIds == 3
NumStatIds == 2
MaxStats == 3
MaxConfigs == 3
MaxLong == 12

(***************************************************************************)
(* Program constants.                                                      *)
(***************************************************************************)
PrintLimit == 10

\* The application ids: the first NumStatIds of them can have statistics.
Ids == 1..NumIds
StatIds == 1..NumStatIds
Min(a, b) == IF a < b THEN a ELSE b

(***************************************************************************)
(* What the server can answer.                                             *)
(***************************************************************************)
Statuses == {200, 201, 300, 404, 503}

\* OAppStats rows for a list of ids, in descending totalPacketsReceived
\* order (with ties), as order_by: { totalPacketsReceived: desc } returns them.
StatsOf(ids) ==
    [k \in 1..Len(ids) |->
        [id |-> ids[k], totalPacketsReceived |-> (Len(ids) - k) \div 2]]

\* OAppSecurityConfig rows for a list of oappIds.
ConfigsOf(ids) == [k \in 1..Len(ids) |-> [oappId |-> ids[k], row |-> k]]

IdSeqs(n) == UNION {[1..m -> Ids] : m \in 0..n}
StatIdSeqs(n) == UNION {[1..m -> StatIds] : m \in 0..n}

\* The same lists with the field f dropped from row k (a malformed answer).
Drop(r, f) == [g \in (DOMAIN r) \ {f} |-> r[g]]
DropAt(seq, k, f) ==
    [j \in 1..Len(seq) |-> IF j = k THEN Drop(seq[j], f) ELSE seq[j]]

OkBody(S, C) == [kind |-> "ok", OAppStats |-> S, OAppSecurityConfig |-> C]
BadBody(k) == [kind |-> k, OAppStats |-> <<>>, OAppSecurityConfig |-> <<>>]

\* Well-formed answers.
WellFormedBodies ==
    {OkBody(StatsOf(s), ConfigsOf(c)) : s \in StatIdSeqs(MaxStats), c \in IdSeqs(MaxConfigs)}

\* Answers with one field missing from one row.
MissingFieldBodies ==
    UNION {
        {OkBody(DropAt(StatsOf(s), k, f), ConfigsOf(c)) :
            k \in 1..Len(s), f \in {"id", "totalPacketsReceived"}}
        \cup {OkBody(StatsOf(s), DropAt(ConfigsOf(c), k, "oappId")) : k \in 1..Len(c)}
        : s \in StatIdSeqs(2), c \in IdSeqs(2)}

\* Bodies that are not JSON, or JSON without "data", "OAppStats" or
\* "OAppSecurityConfig".
BrokenBodies == {BadBody(k) : k \in {"notjson", "nodata", "nostats", "noconfigs"}}

\* Long answers: n config rows cycling through m ids, with no stats or with
\* the stats of the m ids in descending id order.
LongIds(n, m) == [k \in 1..n |-> ((k - 1) % m) + 1]
Descending(m) == [k \in 1..m |-> m + 1 - k]
LongBodies ==
    UNION {
        {OkBody(<<>>, ConfigsOf(LongIds(n, m))),
         OkBody(StatsOf(Descending(m)), ConfigsOf(LongIds(n, m)))}
        : n \in 1..MaxLong, m \in 1..MaxLong}

\* The answer of the worked example: stats a, b, c and configs c, a, x, a.
ExampleBody == OkBody(StatsOf(<<1, 2, 3>>), ConfigsOf(<<3, 1, 4, 1>>))

SmallBodies ==
    BrokenBodies
    \cup {OkBody(StatsOf(s), ConfigsOf(c)) : s \in StatIdSeqs(1), c \in IdSeqs(1)}

Responses ==
    {<<200, b>> : b \in WellFormedBodies \cup MissingFieldBodies \cup LongBodies
                        \cup {ExampleBody}}
    \cup (Statuses \X SmallBodies)

(***************************************************************************)
(* The pure steps of the pipeline.                                         *)
(***************************************************************************)
\* r.get(f) on a dict: the value, or None (0 here) when the key is missing.
GetOrNone(r, f) ==
    IF f \in DOMAIN r THEN [ok |-> TRUE, val |-> r[f]] ELSE [ok |-> TRUE, val |-> 0]
\* r[f] on a dict: the value, or KeyError (ok = FALSE) when the key is missing.
Subscript(r, f) ==
    IF f \in DOMAIN r THEN [ok |-> TRUE, val |-> r[f]] ELSE [ok |-> FALSE, val |-> 0]

\* resp.raise_for_status(): requests raises HTTPError for a 4xx or 5xx
\* status and returns for every other one.
RaisesForStatus(s) == 400 <= s /\ s < 600

\* a variant that posts again after an error status
RetryOutcome(s) == IF RaisesForStatus(s) THEN "start" ELSE "checked"
\* where the run stands after resp.raise_for_status()
StatusOutcome(s) == IF RaisesForStatus(s) THEN "error" ELSE "checked"

\* {row["id"]: rank for rank, row in enumerate(stats)}: a forward assignment.
RECURSIVE IndexUpTo(_, _)
IndexUpTo(S, n) ==
    IF n = 0 THEN <<>>
    ELSE LET d == IndexUpTo(S, n - 1)
             k == Subscript(S[n], "id").val
         IN [x \in (DOMAIN d) \cup {k} |-> IF x = k THEN n - 1 ELSE d[x]]

\* a variant in which the first occurrence of an id keeps its rank
RECURSIVE IndexFirstUpTo(_, _)
IndexFirstUpTo(S, n) ==
    IF n = 0 THEN <<>>
    ELSE LET d == IndexFirstUpTo(S, n - 1)
             k == Subscript(S[n], "id").val
         IN [x \in (DOMAIN d) \cup {k} |-> IF x \in DOMAIN d THEN d[x] ELSE n - 1]

OrderIndexFirstWins(S) == IndexFirstUpTo(S, Len(S))
OrderIndex(S) == IndexUpTo(S, Len(S))

\* a variant with the default -1 in place of float("inf")
SortKeyUnknownFirst(oi, c) ==
    LET k == Subscript(c, "oappId").val
    IN IF k \in DOMAIN oi THEN [inf |-> FALSE, rank |-> oi[k]]
       ELSE [inf |-> FALSE, rank |-> 0 - 1]
\* order_index.get(c["oappId"], float("inf"))
SortKey(oi, c) ==
    LET k == Subscript(c, "oappId").val
    IN IF k \in DOMAIN oi THEN [inf |-> FALSE, rank |-> oi[k]]
       ELSE [inf |-> TRUE, rank |-> 0]

\* a < b on keys: an int rank, or float("inf")
KeyLess(a, b) == IF a.inf THEN FALSE ELSE (b.inf \/ a.rank < b.rank)

\* sorted(configs, key=...): a stable sort.  The row c goes after every row
\* already placed whose key is not greater than its own.
InsertAfterEqual(oi, placed, c) ==
    LET p == Cardinality({j \in 1..Len(placed) :
                 ~KeyLess(SortKey(oi, c), SortKey(oi, placed[j]))})
    IN SubSeq(placed, 1, p) \o <<c>> \o SubSeq(placed, p + 1, Len(placed))

\* a variant that is not stable: c goes ahead of the rows with its own key
InsertBeforeEqual(oi, placed, c) ==
    LET p == Cardinality({j \in 1..Len(placed) :
                 KeyLess(SortKey(oi, placed[j]), SortKey(oi, c))})
    IN SubSeq(placed, 1, p) \o <<c>> \o SubSeq(placed, p + 1, Len(placed))

RECURSIVE SortUpTo(_, _, _)
SortUpTo(oi, C, n) ==
    IF n = 0 THEN <<>> ELSE InsertAfterEqual(oi, SortUpTo(oi, C, n - 1), C[n])

RECURSIVE UnstableSortUpTo(_, _, _)
UnstableSortUpTo(oi, C, n) ==
    IF n = 0 THEN <<>> ELSE InsertBeforeEqual(oi, UnstableSortUpTo(oi, C, n - 1), C[n])

UnstableSorted(oi, C) == UnstableSortUpTo(oi, C, Len(C))
Sorted(oi, C) == SortUpTo(oi, C, Len(C))

\* deduped.setdefault(c["oappId"], c) over the rows, then list(deduped.values()):
\* a dict keeps its keys in the order of their first insertion.
OappId(c) == Subscript(c, "oappId").val

RECURSIVE DedupeUpTo(_, _)
DedupeUpTo(seq, n) ==
    IF n = 0 THEN <<>>
    ELSE LET d == DedupeUpTo(seq, n - 1)
         IN IF \E j \in 1..Len(d) : OappId(d[j]) = OappId(seq[n])
            THEN d ELSE Append(d, seq[n])

\* a variant with deduped[c["oappId"]] = c: the last row per key is kept
RECURSIVE DedupeAssignUpTo(_, _)
DedupeAssignUpTo(seq, n) ==
    IF n = 0 THEN <<>>
    ELSE LET d == DedupeAssignUpTo(seq, n - 1)
         IN IF \E j \in 1..Len(d) : OappId(d[j]) = OappId(seq[n])
            THEN [j \in 1..Len(d) |->
                    IF OappId(d[j]) = OappId(seq[n]) THEN seq[n] ELSE d[j]]
            ELSE Append(d, seq[n])

DedupeLastWins(seq) == DedupeAssignUpTo(seq, Len(seq))
Dedupe(seq) == DedupeUpTo(seq, Len(seq))

\* a variant with the slice [:9]
FirstNine(seq) == SubSeq(seq, 1, Min(PrintLimit - 1, Len(seq)))
\* configs_unique_in_stats_order[:10]
FirstTen(seq) == SubSeq(seq, 1, Min(PrintLimit, Len(seq)))

\* print(...) of the header and of a row
Header == [text |-> "First 10 in desired order:"]
Repr(c) == [text |-> "row", of |-> c]

(***************************************************************************)
(* The run.                                                                *)
(***************************************************************************)
NoBody == BadBody("none")

Init ==
    /\ pc = "start"
    /\ exc = "none"
    /\ posts = 0
    /\ status = 0
    /\ body = NoBody
    /\ data = NoBody
    /\ stats = <<>>
    /\ configs = <<>>
    /\ order_index = <<>>
    /\ configs_sorted = <<>>
    /\ configs_unique_in_stats_order = <<>>
    /\ slice = <<>>
    /\ i = 0
    /\ stdout = <<>>

Raise(e) == pc' = "error" /\ exc' = e

\* line 30: requests.post(...), answered by the server
Post ==
    /\ pc = "start"
    /\ posts' = posts + 1
    /\ \E r \in Responses :
          /\ status' = r[1]
          /\ body' = r[2]
    /\ pc' = "posted"
    /\ UNCHANGED <<exc, data, stats, configs, order_index, configs_sorted,
                   configs_unique_in_stats_order, slice, i, stdout>>

\* line 30: requests.post(...) raising (no connection, no answer)
PostFails ==
    /\ pc = "start"
    /\ posts' = posts + 1
    /\ Raise("ConnectionError")
    /\ UNCHANGED <<status, body, data, stats, configs, order_index, configs_sorted,
                   configs_unique_in_stats_order, slice, i, stdout>>

\* line 31: resp.raise_for_status()
RaiseForStatus ==
    /\ pc = "posted"
    /\ pc' = StatusOutcome(status)
    /\ exc' = IF RaisesForStatus(status) THEN "HTTPError" ELSE exc
    /\ UNCHANGED <<posts, status, body, data, stats, configs, order_index,
                   configs_sorted, configs_unique_in_stats_order, slice, i, stdout>>

\* line 32: data = resp.json()["data"]
ParseJson ==
    /\ pc = "checked"
    /\ IF body.kind = "notjson" THEN Raise("JSONDecodeError") /\ data' = data
       ELSE IF body.kind = "nodata" THEN Raise("KeyError") /\ data' = data
       ELSE pc' = "parsed" /\ exc' = exc /\ data' = body
    /\ UNCHANGED <<posts, status, body, stats, configs, order_index,
                   configs_sorted, configs_unique_in_stats_order, slice, i, stdout>>

\* line 34: stats = data["OAppStats"]
GetStats ==
    /\ pc = "parsed"
    /\ IF data.kind = "nostats" THEN Raise("KeyError") /\ stats' = stats
       ELSE pc' = "stats" /\ exc' = exc /\ stats' = data.OAppStats
    /\ UNCHANGED <<posts, status, body, data, configs, order_index,
                   configs_sorted, configs_unique_in_stats_order, slice, i, stdout>>

\* line 35: configs = data["OAppSecurityConfig"]
GetConfigs ==
    /\ pc = "stats"
    /\ IF data.kind = "noconfigs" THEN Raise("KeyError") /\ configs' = configs
       ELSE pc' = "configs" /\ exc' = exc /\ configs' = data.OAppSecurityConfig
    /\ UNCHANGED <<posts, status, body, data, stats, order_index,
                   configs_sorted, configs_unique_in_stats_order, slice, i, stdout>>

\* row["id"] succeeds on every row of stats
IdsPresent(S) == \A k \in 1..Len(S) : Subscript(S[k], "id").ok

\* c["oappId"] succeeds on every row of configs
OappIdsPresent(C) == \A k \in 1..Len(C) : Subscript(C[k], "oappId").ok

\* line 38: order_index = {row["id"]: rank for rank, row in enumerate(stats)}
BuildOrderIndex ==
    /\ pc = "configs"
    /\ IF IdsPresent(stats)
       THEN pc' = "indexed" /\ exc' = exc /\ order_index' = OrderIndex(stats)
       ELSE Raise("KeyError") /\ order_index' = order_index
    /\ UNCHANGED <<posts, status, body, data, stats, configs,
                   configs_sorted, configs_unique_in_stats_order, slice, i, stdout>>

\* lines 41-44: configs_sorted = sorted(configs, key=...)
SortConfigs ==
    /\ pc = "indexed"
    /\ IF OappIdsPresent(configs)
       THEN pc' = "sorted" /\ exc' = exc
            /\ configs_sorted' = Sorted(order_index, configs)
       ELSE Raise("KeyError") /\ configs_sorted' = configs_sorted
    /\ UNCHANGED <<posts, status, body, data, stats, configs, order_index,
                   configs_unique_in_stats_order, slice, i, stdout>>

\* lines 47-50: the setdefault loop and list(deduped.values())
DedupeConfigs ==
    /\ pc = "sorted"
    /\ configs_unique_in_stats_order' = Dedupe(configs_sorted)
    /\ pc' = "deduped"
    /\ UNCHANGED <<exc, posts, status, body, data, stats, configs, order_index,
                   configs_sorted, slice, i, stdout>>

\* line 53: print("First 10 in desired order:")
PrintHeader ==
    /\ pc = "deduped"
    /\ stdout' = Append(stdout, Header)
    /\ pc' = "header"
    /\ UNCHANGED <<exc, posts, status, body, data, stats, configs, order_index,
                   configs_sorted, configs_unique_in_stats_order, slice, i>>

\* line 54: the slice the for loop iterates over
TakeSlice ==
    /\ pc = "header"
    /\ slice' = FirstTen(configs_unique_in_stats_order)
    /\ i' = 0
    /\ pc' = "loop"
    /\ UNCHANGED <<exc, posts, status, body, data, stats, configs, order_index,
                   configs_sorted, configs_unique_in_stats_order, stdout>>

\* line 55: print(c)
PrintRow ==
    /\ pc = "loop"
    /\ i < Len(slice)
    /\ stdout' = Append(stdout, Repr(slice[i + 1]))
    /\ i' = i + 1
    /\ UNCHANGED <<pc, exc, posts, status, body, data, stats, configs, order_index,
                   configs_sorted, configs_unique_in_stats_order, slice>>

\* line 54: the for loop is exhausted and the script ends
Exit ==
    /\ pc = "loop"
    /\ i = Len(slice)
    /\ pc' = "done"
    /\ UNCHANGED <<exc, posts, status, body, data, stats, configs, order_index,
                   configs_sorted, configs_unique_in_stats_order, slice, i, stdout>>

Next ==
    \/ Post
    \/ PostFails
    \/ RaiseForStatus
    \/ ParseJson
    \/ GetStats
    \/ GetConfigs
    \/ BuildOrderIndex
    \/ SortConfigs
    \/ DedupeConfigs
    \/ PrintHeader
    \/ TakeSlice
    \/ PrintRow
    \/ Exit

Spec == Init /\ [][Next]_vars

(***************************************************************************)
(* Vocabulary of the properties.                                           *)
(***************************************************************************)
AfterIndex == pc \in {"indexed", "sorted", "deduped", "header", "loop", "done"}
AfterSort == pc \in {"sorted", "deduped", "header", "loop", "done"}
AfterDedupe == pc \in {"deduped", "header", "loop", "done"}

Positions(x) == {k \in 1..Len(stats) : stats[k].id = x}
Known(c) == Positions(c.oappId) # {}
AllKnown == \A k \in 1..Len(configs) : Known(configs[k])
MinOf(S) == CHOOSE x \in S : \A y \in S : x <= y
MaxOf(S) == CHOOSE x \in S : \A y \in S : y <= x
FirstPos(x) == MinOf(Positions(x))
LastPos(x) == MaxOf(Positions(x))
ConfigIds == {configs[k].oappId : k \in 1..Len(configs)}
UniqueIds ==
    {configs_unique_in_stats_order[k].oappId :
        k \in 1..Len(configs_unique_in_stats_order)}
OnePerId ==
    /\ UniqueIds = ConfigIds
    /\ Len(configs_unique_in_stats_order) = Cardinality(ConfigIds)
RepeatedStatId == \E a, b \in 1..Len(stats) : a < b /\ stats[a].id = stats[b].id

\* C1 as stated: when every oappId of the configs occurs in the stats, the
\* deduplicated output lists the oappIds in the order in which the ids first
\* appear in the stats, repeated ids included.
C1_OrderOfFirstAppearance ==
    (AfterDedupe /\ AllKnown) =>
        /\ OnePerId
        /\ \A a, b \in 1..Len(configs_unique_in_stats_order) :
              a < b => FirstPos(configs_unique_in_stats_order[a].oappId)
                         < FirstPos(configs_unique_in_stats_order[b].oappId)

\* C1 amended: when every oappId of the configs occurs in the stats, the
\* deduplicated output lists each oappId once, in the order of the LAST
\* occurrences of the ids in the stats.
C1_OrderOfLastOccurrence ==
    (AfterDedupe /\ AllKnown) =>
        /\ OnePerId
        /\ \A a, b \in 1..Len(configs_unique_in_stats_order) :
              a < b => LastPos(configs_unique_in_stats_order[a].oappId)
                         < LastPos(configs_unique_in_stats_order[b].oappId)

\* a run whose stats repeat an id and whose output order is not the order of
\* first appearance
C1_Witness ==
    /\ AfterDedupe /\ AllKnown /\ RepeatedStatId
    /\ \E a, b \in 1..Len(configs_unique_in_stats_order) :
          /\ a < b
          /\ FirstPos(configs_unique_in_stats_order[b].oappId)
               < FirstPos(configs_unique_in_stats_order[a].oappId)

UnknownsLast(L) ==
    \A a, b \in 1..Len(L) : (a < b /\ Known(L[b])) => Known(L[a])
UnknownsInInputOrder(L) ==
    \A a, b \in 1..Len(L) :
        (a < b /\ ~Known(L[a]) /\ ~Known(L[b])) => L[a].row < L[b].row

\* C2: in the sorted list and in the deduplicated list, every row whose
\* oappId is absent from the stats comes after all rows whose oappId is
\* present, and the rows with unknown oappIds keep their relative order from
\* the input; on the worked example the output is the first a, then c, then x.
C2_UnknownsLastInInputOrder ==
    /\ AfterSort =>
          /\ UnknownsLast(configs_sorted)
          /\ UnknownsInInputOrder(configs_sorted)
    /\ AfterDedupe =>
          /\ UnknownsLast(configs_unique_in_stats_order)
          /\ UnknownsInInputOrder(configs_unique_in_stats_order)
    /\ (AfterDedupe /\ data = ExampleBody) =>
          configs_unique_in_stats_order
            = <<[oappId |-> 1, row |-> 2], [oappId |-> 3, row |-> 1],
                [oappId |-> 4, row |-> 3]>>

\* the input has an unknown row ahead of a known one, and the output holds
\* two unknown oappIds
C2_Witness ==
    /\ AfterDedupe
    /\ \E a, b \in 1..Len(configs) : a < b /\ ~Known(configs[a]) /\ Known(configs[b])
    /\ \E a, b \in 1..Len(configs_unique_in_stats_order) :
          /\ a < b
          /\ ~Known(configs_unique_in_stats_order[a])
          /\ ~Known(configs_unique_in_stats_order[b])

\* the place in the sorted list of the first row with the oappId x
FirstSorted(x) ==
    MinOf({k \in 1..Len(configs_sorted) : configs_sorted[k].oappId = x})

\* C3: the deduplicated list holds exactly one row per distinct oappId of
\* the sorted list, that row is the first one with that oappId in sorted
\* order, and the rows stand in their sorted order.
C3_FirstPerIdInSortedOrder ==
    AfterDedupe =>
        LET U == configs_unique_in_stats_order
        IN /\ {U[k].oappId : k \in 1..Len(U)}
                = {configs_sorted[k].oappId : k \in 1..Len(configs_sorted)}
           /\ \A a, b \in 1..Len(U) : a # b => U[a].oappId # U[b].oappId
           /\ \A a \in 1..Len(U) : U[a] = configs_sorted[FirstSorted(U[a].oappId)]
           /\ \A a, b \in 1..Len(U) :
                 a < b => FirstSorted(U[a].oappId) < FirstSorted(U[b].oappId)

\* duplicates were dropped and at least two rows were kept
C3_Witness ==
    /\ AfterDedupe
    /\ Len(configs_unique_in_stats_order) >= 2
    /\ Len(configs_unique_in_stats_order) < Len(configs_sorted)

\* R.get(oappId, +infinity) as a number: the rank, or a value above all ranks
RankOrInf(c) ==
    IF c.oappId \in DOMAIN order_index THEN order_index[c.oappId] ELSE Len(stats)

\* C4: configs_sorted is a permutation of configs in non-decreasing order of
\* R.get(oappId, +infinity), and two rows of equal rank (the unknown ones
\* included) keep their relative order from configs.
C4_StablePermutation ==
    AfterSort =>
        /\ Len(configs_sorted) = Len(configs)
        /\ {configs_sorted[k] : k \in 1..Len(configs_sorted)}
             = {configs[k] : k \in 1..Len(configs)}
        /\ \A a, b \in 1..Len(configs_sorted) :
              a < b =>
                /\ RankOrInf(configs_sorted[a]) <= RankOrInf(configs_sorted[b])
                /\ RankOrInf(configs_sorted[a]) = RankOrInf(configs_sorted[b])
                     => configs_sorted[a].row < configs_sorted[b].row

\* the sort moved a row, and two rows of equal rank are in the list
C4_Witness ==
    /\ AfterSort
    /\ configs_sorted # configs
    /\ \E a, b \in 1..Len(configs_sorted) :
          /\ a < b
          /\ RankOrInf(configs_sorted[a]) = RankOrInf(configs_sorted[b])
          /\ configs_sorted[a].oappId # configs_sorted[b].oappId

\* C5: the keys of the rank index are exactly the distinct ids of the stats,
\* and each id maps to the zero-based position of its last occurrence.
C5_LastOccurrenceRank ==
    AfterIndex =>
        /\ DOMAIN order_index = {stats[k].id : k \in 1..Len(stats)}
        /\ \A x \in DOMAIN order_index : order_index[x] = LastPos(x) - 1

\* the index was built from stats that repeat an id
C5_Witness == pc = "indexed" /\ RepeatedStatId

Is2xx(s) == 200 <= s /\ s < 300

\* C6: in every run that receives a non-2xx response, standard output stays
\* empty.
C6_NonOkStatusPrintsNothing ==
    (status # 0 /\ ~Is2xx(status)) => stdout = <<>>

Rows(d) == {d.OAppStats[k] : k \in 1..Len(d.OAppStats)}
ConfigRows(d) == {d.OAppSecurityConfig[k] : k \in 1..Len(d.OAppSecurityConfig)}
MissingId == \E r \in Rows(data) : "id" \notin DOMAIN r
MissingTotal == \E r \in Rows(data) : "totalPacketsReceived" \notin DOMAIN r
MissingOappId == \E r \in ConfigRows(data) : "oappId" \notin DOMAIN r

\* C7 as stated: a run whose answer has a row without id, without
\* totalPacketsReceived or without oappId never completes normally.
C7_AnyMissingFieldAborts ==
    (MissingId \/ MissingTotal \/ MissingOappId) => pc # "done"

\* C7 amended: a run whose answer has an OAppStats row without id stops with
\* an error at the rank index, and one whose answer has an
\* OAppSecurityConfig row without oappId stops with an error at the sort, so
\* neither sorts, prints nor completes normally.
C7_MissingKeyAborts ==
    /\ MissingId => pc \in {"parsed", "stats", "configs", "error"}
    /\ MissingOappId => pc \in {"parsed", "stats", "configs", "indexed", "error"}
    /\ (MissingId \/ MissingOappId) => stdout = <<>>

\* the sort stopped on a row without oappId
C7_Witness ==
    /\ pc = "error" /\ exc = "KeyError"
    /\ MissingOappId /\ ~MissingId
    /\ order_index # <<>>

\* C8: a successful run has printed, after the header, exactly the first
\* min(10, n) rows of the deduplicated list, in order, one per line, and the
\* deduplicated list is what deduplication left.
C8_PrintsFirstTen ==
    pc = "done" =>
        LET U == configs_unique_in_stats_order
            m == Min(PrintLimit, Len(U))
        IN /\ Len(stdout) = m + 1
           /\ stdout[1] = Header
           /\ \A k \in 1..m : stdout[k + 1] = Repr(U[k])
           /\ U = Dedupe(configs_sorted)

\* a successful run with more than ten deduplicated rows
C8_Witness == pc = "done" /\ Len(configs_unique_in_stats_order) > PrintLimit

C10_DedupeCommutesWithSort ==
    AfterDedupe =>
        LET U == configs_unique_in_stats_order
        IN /\ U = Sorted(order_index, Dedupe(configs))
           /\ \A a \in 1..Len(U) :
                 U[a].row = MinOf({k \in 1..Len(configs) :
                                     configs[k].oappId = U[a].oappId})

\* duplicates were dropped from a list that the sort reordered
C10_Witness ==
    /\ AfterDedupe
    /\ configs_sorted # configs
    /\ Len(configs_unique_in_stats_order) < Len(configs)
    /\ Len(configs_unique_in_stats_order) >= 2

====
